---- MODULE Spec2Model ----
(***************************************************************************)
(* Model of BasicBot (src/bot.py): the exchange adapter (_safe_execute and *)
(* the three order operations) and the TWAP slicer (place_twap).           *)
(*                                                                         *)
(* Quantities.  A float quantity is modelled as an exact rational number   *)
(* of ticks, one tick being 10^-8 (the resolution of round(x, 8)).  A      *)
(* rational is a record [n |-> numerator, d |-> denominator], d > 0.       *)
(* Inputs are given in fine units of 1/SubTick tick, so that totals with   *)
(* more than 8 decimals exist.  Binary floating point differs from the     *)
(* exact rational by far less than the distance of any modelled value to   *)
(* a rounding tie, except on an exact tie, where the double nearest to the *)
(* tie may lie on either side: there round(x, 8) is a choice of both       *)
(* neighbours.                                                             *)
(***************************************************************************)
EXTENDS Integers, Sequences, FiniteSets, TLC

VARIABLES
    pc,             \* position of the single flow of control
    op,             \* the operation invoked: "none", "market", "limit", "stop_limit", "twap"
    args,           \* the arguments of the invoked operation
    i,              \* place_twap: loop index
    base,           \* place_twap: base = total_quantity / slices (a rational of ticks)
    results,        \* place_twap: the results list
    params,         \* the keyword arguments handed to _safe_execute
    outcome,        \* what the exchange call of the current _safe_execute did
    res,            \* the value the last _safe_execute returned (<<>> before the first)
    returned,       \* <<v>> once the invoked operation returned v
    raised,         \* the exception that left the invoked operation, "none" if none
    log,            \* the log sink: every entry emitted, in order
    exchangeCalls,  \* every call of client.futures_create_order: its keyword arguments
    outcomes,       \* what the exchange did on each call, in order
    sleeps,         \* every time.sleep performed: its duration
    events          \* order of submissions, appends and waits of place_twap

vars == <<pc, op, args, i, base, results, params, outcome, res, returned, raised,
          log, exchangeCalls, outcomes, sleeps, events>>

----------------------------------------------------------------------------
(* Bounds of the model and program constants *)

\* 10^8: round(x, 8) keeps 8 decimals, one tick is 10^-8
Tick == 100000000
\* inputs have a resolution of 1/SubTick tick
SubTick == 3
\* total_quantity ranges over 0 .. MaxTotal fine units, and 1.0
MaxTotal == 6
\* slices ranges over -MaxNonPosSlices .. MaxSlices
MaxNonPosSlices == 1
MaxSlices == 3
\* interval_s ranges over 0 .. MaxInterval (a TWAP plan has an interval >= 0)
MaxInterval == 1
\* quantity, price and stop price of a single order range over 1 .. MaxQty, 1 .. MaxPrice
MaxQty == 2
MaxPrice == 2

\* total_quantity = 1.0 in fine units
OneUnit == Tick * SubTick

Symbols == {"BTCUSDT"}
Sides == {"BUY", "SELL"}
Totals == (0 .. MaxTotal) \cup {OneUnit}
SliceCounts == -MaxNonPosSlices .. MaxSlices
Intervals == 0 .. MaxInterval

\* What client.futures_create_order can do: return a payload (opaque to the
\* adapter), raise BinanceAPIException, raise another Exception.  An outcome
\* that is a payload carries no message, one that is an exception no payload.
Payloads == { [orderId |-> 1, status |-> "NEW"], [orderId |-> 2, status |-> "FILLED"] }
NoPayload == [orderId |-> 0, status |-> ""]
ExchangeOutcomes ==
    { [kind |-> "payload", payload |-> p, message |-> ""] : p \in Payloads }
    \cup
    { [kind |-> "BinanceAPIException", payload |-> NoPayload,
       message |-> "Insufficient margin"],
      [kind |-> "Exception", payload |-> NoPayload, message |-> "Connection reset"] }
NoOutcome == [kind |-> "none", payload |-> NoPayload, message |-> ""]

----------------------------------------------------------------------------
(* Float arithmetic as exact rationals of ticks *)

RECURSIVE GCD(_, _)
GCD(a, b) == IF b = 0 THEN a ELSE GCD(b, a % b)

LCM(a, b) == (a \div GCD(a, b)) * b

\* float(total_quantity): a total of f fine units
ToFloat(f) == [n |-> f, d |-> SubTick]

\* x / k, k a positive integer
RatDiv(x, k) == [n |-> x.n, d |-> x.d * k]

\* x * k, k an integer
RatMul(x, k) == [n |-> x.n * k, d |-> x.d]

\* x - y
RatSub(x, y) ==
    LET l == LCM(x.d, y.d)
    IN  [n |-> x.n * (l \div x.d) - y.n * (l \div y.d), d |-> l]

\* round(x, 8): the whole numbers of ticks nearest to x; both on a tie
Round8(x) ==
    LET fl == x.n \div x.d
        rm == x.n % x.d
    IN  IF 2 * rm < x.d THEN {fl}
        ELSE IF 2 * rm > x.d THEN {fl + 1}
        ELSE {fl, fl + 1}

----------------------------------------------------------------------------
(* place_twap: pure parts *)

\* Variant: the check lets slices = 0 through
InvalidSlicesOffByOne(slices) == slices < 0

\* bot.py:77: the precondition check
InvalidSlices(slices) == slices <= 0

\* bot.py:80
Base(total, slices) == RatDiv(ToFloat(total), slices)

\* Variant: the single slice is truncated instead of rounded
SliceQtyTruncated(total, slices, b, idx) ==
    IF idx < slices - 1
    THEN Round8(b)
    ELSE LET x == RatSub(ToFloat(total), RatMul(b, slices - 1))
         IN  {x.n \div x.d}

\* bot.py:83: the quantities slice idx may get
SliceQty(total, slices, b, idx) ==
    IF idx < slices - 1
    THEN Round8(b)
    ELSE Round8(RatSub(ToFloat(total), RatMul(b, slices - 1)))

\* bot.py:81: range(slices)
InRange(idx, slices) == idx >= 0 /\ idx < slices

\* Variant: a wait follows every slice, the last one too
WaitsAfterEvery(idx, slices) == idx < slices

\* bot.py:87: a wait follows every slice but the last
WaitsAfter(idx, slices) == idx < slices - 1

----------------------------------------------------------------------------
(* Adapter: pure parts *)

MarketParams(symbol, side, quantity) ==
    [symbol |-> symbol, side |-> side, type |-> "MARKET", quantity |-> quantity]

LimitParams(symbol, side, quantity, price) ==
    [symbol |-> symbol, side |-> side, type |-> "LIMIT", timeInForce |-> "GTC",
     price |-> price, quantity |-> quantity]

StopLimitParams(symbol, side, quantity, price, stop_price) ==
    [symbol |-> symbol, side |-> side, type |-> "STOP", timeInForce |-> "GTC",
     price |-> price, stopPrice |-> stop_price, quantity |-> quantity]

Method == "futures_create_order"

\* bot.py:51, 54, 58: what _safe_execute returns
ResultOf(o) ==
    IF o.kind = "payload" THEN o.payload ELSE [error |-> o.message]

\* Variant: only BinanceAPIException is caught
PropagatesUnexpected(o) == o.kind \notin {"payload", "BinanceAPIException"}

\* bot.py:52, 55: the except clauses catch BinanceAPIException and every other
\* Exception; nothing else is caught
Propagates(o) == o.kind \notin {"payload", "BinanceAPIException", "Exception"}

LogEntry(level, kind, data) ==
    [level |-> level, kind |-> kind, method |-> Method, data |-> data]

\* Variant: a failure of the exchange call is not logged
OutcomeLogSuccessOnly(o) ==
    IF o.kind = "payload"
    THEN << LogEntry("info", "response", <<o.payload>>) >>
    ELSE << >>

\* bot.py:50, 53, 56-57: the entries logged once the exchange call is over
OutcomeLog(o) ==
    IF o.kind = "payload"
    THEN << LogEntry("info", "response", <<o.payload>>) >>
    ELSE IF o.kind = "BinanceAPIException"
    THEN << LogEntry("error", "BinanceAPIException", <<o.message>>) >>
    ELSE << LogEntry("error", "Unexpected error", <<o.message>>),
            LogEntry("debug", "Traceback", <<o.message>>) >>

----------------------------------------------------------------------------
NoArgs == [symbol |-> "", side |-> "", quantity |-> 0, total |-> 0, slices |-> 0,
           interval |-> 0]
NoParams == MarketParams("", "", 0)
NoBase == [n |-> 0, d |-> 1]

Init ==
    /\ pc = "idle"
    /\ op = "none"
    /\ args = NoArgs
    /\ i = 0
    /\ base = NoBase
    /\ results = <<>>
    /\ params = NoParams
    /\ outcome = NoOutcome
    /\ res = <<>>
    /\ returned = <<>>
    /\ raised = "none"
    /\ log = <<>>
    /\ exchangeCalls = <<>>
    /\ outcomes = <<>>
    /\ sleeps = <<>>
    /\ events = <<>>

\* bot.py:61-63
PlaceMarketOrder(symbol, side, quantity) ==
    /\ pc = "idle"
    /\ op' = "market"
    /\ args' = [NoArgs EXCEPT !.symbol = symbol, !.side = side, !.quantity = quantity]
    /\ params' = MarketParams(symbol, side, quantity)
    /\ pc' = "safe_execute"
    /\ UNCHANGED <<i, base, results, outcome, res, returned, raised, log,
                   exchangeCalls, outcomes, sleeps, events>>

\* bot.py:66-68
PlaceLimitOrder(symbol, side, quantity, price) ==
    /\ pc = "idle"
    /\ op' = "limit"
    /\ args' = [NoArgs EXCEPT !.symbol = symbol, !.side = side, !.quantity = quantity]
    /\ params' = LimitParams(symbol, side, quantity, price)
    /\ pc' = "safe_execute"
    /\ UNCHANGED <<i, base, results, outcome, res, returned, raised, log,
                   exchangeCalls, outcomes, sleeps, events>>

\* bot.py:71-73
PlaceStopLimit(symbol, side, quantity, price, stop_price) ==
    /\ pc = "idle"
    /\ op' = "stop_limit"
    /\ args' = [NoArgs EXCEPT !.symbol = symbol, !.side = side, !.quantity = quantity]
    /\ params' = StopLimitParams(symbol, side, quantity, price, stop_price)
    /\ pc' = "safe_execute"
    /\ UNCHANGED <<i, base, results, outcome, res, returned, raised, log,
                   exchangeCalls, outcomes, sleeps, events>>

\* bot.py:76-80: entry of place_twap, up to the loop
PlaceTwap(symbol, side, total, slices, interval) ==
    /\ pc = "idle"
    /\ op' = "twap"
    /\ args' = [NoArgs EXCEPT !.symbol = symbol, !.side = side, !.total = total,
                              !.slices = slices, !.interval = interval]
    /\ IF InvalidSlices(slices)
       THEN /\ raised' = "ValueError"
            /\ pc' = "raised"
            /\ UNCHANGED base
       ELSE /\ base' = Base(total, slices)
            /\ pc' = "twap_slice"
            /\ UNCHANGED raised
    /\ UNCHANGED <<i, results, params, outcome, res, returned, log,
                   exchangeCalls, outcomes, sleeps, events>>

\* bot.py:81-85: one iteration up to the call of place_market_order
TwapSlice ==
    /\ pc = "twap_slice"
    /\ \E qty \in SliceQty(args.total, args.slices, base, i) :
          /\ log' = Append(log, [level |-> "info", kind |-> "TWAP slice",
                                 method |-> "place_twap",
                                 data |-> <<i + 1, args.slices, qty>>])
          /\ params' = MarketParams(args.symbol, args.side, qty)
    /\ pc' = "safe_execute"
    /\ UNCHANGED <<op, args, i, base, results, outcome, res, returned, raised,
                   exchangeCalls, outcomes, sleeps, events>>

\* bot.py:44-47: the request is logged
SafeExecuteLogRequest ==
    /\ pc = "safe_execute"
    /\ log' = Append(log, LogEntry("info", "request", <<params>>))
    /\ pc' = "dispatch"
    /\ UNCHANGED <<op, args, i, base, results, params, outcome, res, returned,
                   raised, exchangeCalls, outcomes, sleeps, events>>

\* bot.py:48: the exchange call
SafeExecuteDispatch(o) ==
    /\ pc = "dispatch"
    /\ exchangeCalls' = Append(exchangeCalls, params)
    /\ outcomes' = Append(outcomes, o)
    /\ outcome' = o
    /\ events' = Append(events, "submit")
    /\ pc' = "outcome"
    /\ UNCHANGED <<op, args, i, base, results, params, res, returned, raised,
                   log, sleeps>>

\* Variant: a failed exchange call is issued again
SafeExecuteReturnRetry ==
    /\ pc = "outcome"
    /\ log' = log \o OutcomeLog(outcome)
    /\ IF outcome.kind # "payload"
       THEN /\ pc' = "dispatch"
            /\ UNCHANGED <<res, returned>>
       ELSE /\ res' = <<ResultOf(outcome)>>
            /\ IF op = "twap"
               THEN /\ pc' = "twap_append"
                    /\ UNCHANGED returned
               ELSE /\ pc' = "done"
                    /\ returned' = <<ResultOf(outcome)>>
    /\ UNCHANGED <<op, args, i, base, results, params, outcome, raised,
                   exchangeCalls, outcomes, sleeps, events>>

\* bot.py:49-58: the outcome is logged and _safe_execute returns to its caller
SafeExecuteReturn ==
    /\ pc = "outcome"
    /\ log' = log \o OutcomeLog(outcome)
    /\ IF Propagates(outcome)
       THEN /\ raised' = outcome.kind
            /\ pc' = "raised"
            /\ UNCHANGED <<res, returned>>
       ELSE /\ res' = <<ResultOf(outcome)>>
            /\ UNCHANGED raised
            /\ IF op = "twap"
               THEN /\ pc' = "twap_append"
                    /\ UNCHANGED returned
               ELSE /\ pc' = "done"
                    /\ returned' = <<ResultOf(outcome)>>
    /\ UNCHANGED <<op, args, i, base, results, params, outcome,
                   exchangeCalls, outcomes, sleeps, events>>

\* Variant: the loop is left at the first slice that failed
TwapAppendStopOnError ==
    /\ pc = "twap_append"
    /\ results' = Append(results, res[1])
    /\ events' = Append(events, "append")
    /\ IF "error" \in DOMAIN res[1]
       THEN /\ pc' = "done"
            /\ returned' = <<results'>>
            /\ UNCHANGED i
       ELSE IF WaitsAfter(i, args.slices)
       THEN /\ pc' = "twap_sleep"
            /\ UNCHANGED <<i, returned>>
       ELSE IF InRange(i + 1, args.slices)
       THEN /\ pc' = "twap_slice"
            /\ i' = i + 1
            /\ UNCHANGED returned
       ELSE /\ pc' = "done"
            /\ returned' = <<results'>>
            /\ UNCHANGED i
    /\ UNCHANGED <<op, args, base, params, outcome, res, raised, log,
                   exchangeCalls, outcomes, sleeps>>

\* bot.py:86-87: the result is appended; without a wait the loop goes on at
\* once, and place_twap returns the list when the range is exhausted (bot.py:89)
TwapAppend ==
    /\ pc = "twap_append"
    /\ results' = Append(results, res[1])
    /\ events' = Append(events, "append")
    /\ IF WaitsAfter(i, args.slices)
       THEN /\ pc' = "twap_sleep"
            /\ UNCHANGED <<i, returned>>
       ELSE IF InRange(i + 1, args.slices)
       THEN /\ pc' = "twap_slice"
            /\ i' = i + 1
            /\ UNCHANGED returned
       ELSE /\ pc' = "done"
            /\ returned' = <<results'>>
            /\ UNCHANGED i
    /\ UNCHANGED <<op, args, base, params, outcome, res, raised, log,
                   exchangeCalls, outcomes, sleeps>>

\* bot.py:88: the wait, then the next turn of the loop or the return (bot.py:89)
TwapSleep ==
    /\ pc = "twap_sleep"
    /\ sleeps' = Append(sleeps, args.interval)
    /\ events' = Append(events, "sleep")
    /\ IF InRange(i + 1, args.slices)
       THEN /\ pc' = "twap_slice"
            /\ i' = i + 1
            /\ UNCHANGED returned
       ELSE /\ pc' = "done"
            /\ returned' = <<results>>
            /\ UNCHANGED i
    /\ UNCHANGED <<op, args, base, results, params, outcome, res,
                   raised, log, exchangeCalls, outcomes>>

Next ==
    \/ \E s \in Symbols, d \in Sides, q \in 1 .. MaxQty : PlaceMarketOrder(s, d, q)
    \/ \E s \in Symbols, d \in Sides, q \in 1 .. MaxQty, p \in 1 .. MaxPrice :
          PlaceLimitOrder(s, d, q, p)
    \/ \E s \in Symbols, d \in Sides, q \in 1 .. MaxQty, p \in 1 .. MaxPrice,
          sp \in 1 .. MaxPrice : PlaceStopLimit(s, d, q, p, sp)
    \/ \E s \in Symbols, d \in Sides, t \in Totals, n \in SliceCounts, w \in Intervals :
          PlaceTwap(s, d, t, n, w)
    \/ TwapSlice
    \/ SafeExecuteLogRequest
    \/ \E o \in ExchangeOutcomes : SafeExecuteDispatch(o)
    \/ SafeExecuteReturn
    \/ TwapAppend
    \/ TwapSleep

Spec == Init /\ [][Next]_vars

\* The flow of control is sequential and nothing blocks it for ever: a step
\* that can be taken is taken.
FairSpec == Spec /\ WF_vars(Next)

----------------------------------------------------------------------------
(* Properties *)

Abs(x) == IF x < 0 THEN -x ELSE x

RECURSIVE SumQty(_)
SumQty(calls) ==
    IF calls = <<>> THEN 0 ELSE Head(calls).quantity + SumQty(Tail(calls))

Quantities == [k \in 1 .. Len(exchangeCalls) |-> exchangeCalls[k].quantity]

AllSucceeded == \A k \in 1 .. Len(outcomes) : outcomes[k].kind = "payload"

TwapDone == op = "twap" /\ pc = "done"

\* C1: when place_twap has run with slices >= 1 and total_quantity > 0, the
\* quantities submitted over all slices sum to total_quantity at 8-decimal
\* resolution: the sum is a whole number of ticks nearest to the total, hence
\* the total itself when the total has at most 8 decimals.
C1_SumEqualsTotal ==
    (TwapDone /\ args.slices >= 1 /\ args.total > 0)
        => 2 * Abs(SubTick * SumQty(exchangeCalls) - args.total) <= SubTick

\* C2: place_twap with slices <= 0 fails with ValueError, and at that moment
\* nothing has been submitted, no exchange call made, no wait performed.
C2_InvalidSlicesFail ==
    (op = "twap" /\ args.slices <= 0)
        => /\ pc = "raised"
           /\ raised = "ValueError"
           /\ returned = <<>>
           /\ params = NoParams
           /\ exchangeCalls = <<>>
           /\ log = <<>>
           /\ sleeps = <<>>

C2_Witness ==
    /\ op = "twap"
    /\ args.slices <= 0
    /\ pc = "raised"
    /\ raised = "ValueError"

\* C5: place_twap("BTCUSDT", "BUY", 1.0, slices=3, interval_s=0) with an
\* exchange that always succeeds submits exactly the quantities
\* 0.33333333, 0.33333333, 0.33333334, which sum to 1.0.
C5_ExampleQuantities ==
    (/\ TwapDone
     /\ args.symbol = "BTCUSDT"
     /\ args.side = "BUY"
     /\ args.total = OneUnit
     /\ args.slices = 3
     /\ args.interval = 0
     /\ AllSucceeded)
        => /\ Quantities = <<33333333, 33333333, 33333334>>
           /\ SumQty(exchangeCalls) = Tick

\* C6 as stated: with slices = 1 exactly one market order is submitted, its
\* quantity is the full total_quantity, and no wait is performed.
C6_SingleSliceExact ==
    (op = "twap" /\ args.slices = 1)
        => /\ sleeps = <<>>
           /\ Len(exchangeCalls) <= 1
           /\ pc = "done"
                => /\ Len(exchangeCalls) = 1
                   /\ exchangeCalls[1].type = "MARKET"
                   /\ SubTick * exchangeCalls[1].quantity = args.total

\* C6 amended: with slices = 1 exactly one market order is submitted, its
\* quantity is total_quantity rounded to 8 decimals (within half a tick of the
\* total, so the total itself when it has at most 8 decimals), and no wait is
\* performed.
C6_SingleSliceRounded ==
    (op = "twap" /\ args.slices = 1)
        => /\ sleeps = <<>>
           /\ Len(exchangeCalls) <= 1
           /\ pc = "done"
                => /\ Len(exchangeCalls) = 1
                   /\ exchangeCalls[1].type = "MARKET"
                   /\ 2 * Abs(SubTick * exchangeCalls[1].quantity - args.total)
                          <= SubTick

C6_Witness ==
    /\ TwapDone
    /\ args.slices = 1
    /\ args.interval > 0
    /\ args.total > 0
    /\ Len(exchangeCalls) = 1
    /\ SubTick * exchangeCalls[1].quantity = args.total

\* C7: every order submitted to the exchange has quantity > 0; in particular
\* every slice quantity of place_twap, for total_quantity > 0 and slices >= 1.
C7_PositiveQuantity ==
    (op = "twap" => (args.total > 0 /\ args.slices >= 1))
        => \A k \in 1 .. Len(exchangeCalls) : exchangeCalls[k].quantity > 0

IsError(r) == "error" \in DOMAIN r
IsSuccess(r) == r \in Payloads

\* the Order Result the adapter owes its caller for an exchange outcome
Owed(o, r) ==
    /\ o.kind = "payload" => r = o.payload
    /\ o.kind # "payload" => r = [error |-> o.message]
    /\ IsError(r) # IsSuccess(r)

\* C3: in a place_twap run with slices >= 1, whatever the exchange does on
\* each slice, the loop never stops early: nothing is raised, the returned
\* list has exactly slices entries, and entry k is the result of the k-th
\* submitted slice.
C3_OneResultPerSlice ==
    (op = "twap" /\ args.slices >= 1)
        => /\ raised = "none"
           /\ Len(results) <= Len(outcomes)
           /\ \A k \in 1 .. Len(results) : Owed(outcomes[k], results[k])
           /\ pc = "done" <=> returned # <<>>
           /\ pc = "done"
                => /\ returned = <<results>>
                   /\ Len(results) = args.slices

C3_Witness ==
    /\ TwapDone
    /\ args.slices = MaxSlices
    /\ Len(returned[1]) = MaxSlices
    /\ \A k \in 1 .. MaxSlices :
          IF k = 2 THEN IsError(returned[1][k]) /\ outcomes[k].kind = "BinanceAPIException"
                   ELSE IsSuccess(returned[1][k])

\* C4: no failure of the exchange call leaves an adapter operation: a raised
\* exception with message m yields the result {error: m}, a payload is
\* returned unchanged, and every result is exactly one of payload and error.
C4_NoFailurePropagates ==
    /\ raised # "none" => (op = "twap" /\ args.slices <= 0 /\ exchangeCalls = <<>>)
    /\ pc \in {"twap_append", "twap_sleep", "twap_slice", "safe_execute", "dispatch",
               "done"} /\ outcomes # <<>>
          => /\ res # <<>>
             /\ Owed(outcomes[Len(outcomes)], res[1])
    /\ (pc = "done" /\ op # "twap") => returned = res
    /\ \A k \in 1 .. Len(results) : IsError(results[k]) # IsSuccess(results[k])

C4_Witness ==
    /\ op = "stop_limit"
    /\ pc = "done"
    /\ outcome.kind = "Exception"
    /\ returned = << [error |-> "Connection reset"] >>

IsRequest(e) == e.kind = "request"
IsResponse(e) == e.kind = "response"
IsFailure(e) == e.kind \in {"BinanceAPIException", "Unexpected error"}
IsOutcomeEntry(e) == IsResponse(e) \/ IsFailure(e)

\* every request entry names a call and its parameters and precedes the dispatch
RequestBeforeDispatch ==
    LET reqs == SelectSeq(log, IsRequest)
    IN  /\ Len(reqs) = Len(exchangeCalls) + (IF pc = "dispatch" THEN 1 ELSE 0)
        /\ \A k \in 1 .. Len(exchangeCalls) :
              /\ reqs[k].method = Method
              /\ reqs[k].data = <<exchangeCalls[k]>>

\* C8 as stated: every adapter call logs its request before the dispatch, and
\* once the call is over a response entry has followed the request, whatever
\* the exchange call did.
C8_RequestResponsePairs ==
    /\ RequestBeforeDispatch
    /\ pc \notin {"dispatch", "outcome"}
          => Len(SelectSeq(log, IsResponse)) = Len(SelectSeq(log, IsRequest))

\* the log holds, in order, one request entry per call and, once the call is
\* over, one outcome entry for it: a response entry with the payload when the
\* exchange call returned, an error entry with the message when it raised
RequestOutcomePairs ==
    LET outs == SelectSeq(log, IsOutcomeEntry)
    IN  /\ RequestBeforeDispatch
        /\ Len(outs) = Len(exchangeCalls) - (IF pc = "outcome" THEN 1 ELSE 0)
        /\ \A k \in 1 .. Len(outs) :
              /\ outs[k].method = Method
              /\ outcomes[k].kind = "payload"
                    => /\ IsResponse(outs[k])
                       /\ outs[k].level = "info"
                       /\ outs[k].data = <<outcomes[k].payload>>
              /\ outcomes[k].kind # "payload"
                    => /\ outs[k].kind =
                            (IF outcomes[k].kind = "BinanceAPIException"
                             THEN "BinanceAPIException" ELSE "Unexpected error")
                       /\ outs[k].level = "error"
                       /\ outs[k].data = <<outcomes[k].message>>
        /\ \A n \in 0 .. Len(log) :
              LET pre == SubSeq(log, 1, n)
              IN  Len(SelectSeq(pre, IsRequest)) - Len(SelectSeq(pre, IsOutcomeEntry))
                      \in {0, 1}

NumRequests == Len(SelectSeq(log, IsRequest))
NumOutcomeEntries == Len(SelectSeq(log, IsOutcomeEntry))

\* C8 amended: every adapter call logs its request before the dispatch, and
\* the request is eventually followed by exactly one outcome entry for that
\* call: a response entry with the payload when the exchange call returned,
\* an error entry with the message when it raised.
C8_RequestOutcomePairs ==
    /\ []RequestOutcomePairs
    /\ (NumRequests > NumOutcomeEntries) ~> (NumRequests = NumOutcomeEntries)

C8_Witness ==
    /\ TwapDone
    /\ Len(outcomes) = 3
    /\ outcomes[1].kind = "payload"
    /\ outcomes[2].kind = "BinanceAPIException"
    /\ outcomes[3].kind = "Exception"
    /\ Len(SelectSeq(log, IsRequest)) = 3
    /\ Len(SelectSeq(log, IsFailure)) = 2
    /\ Len(SelectSeq(log, IsResponse)) = 1

Count(kind) == Cardinality({k \in 1 .. Len(events) : events[k] = kind})

\* C9: in a place_twap run with slices >= 1 the order of events is submit,
\* append, wait, submit, append, wait, ..., ending with an append: every wait
\* lasts interval_s, there are slices - 1 waits, none after the last slice.
C9_SubmitWaitAlternate ==
    (op = "twap" /\ args.slices >= 1)
        => /\ \A k \in 1 .. Len(events) :
                 events[k] = (CASE k % 3 = 1 -> "submit"
                                [] k % 3 = 2 -> "append"
                                [] OTHER -> "sleep")
           /\ Count("submit") = Len(exchangeCalls)
           /\ Count("append") = Len(results)
           /\ Count("sleep") = Len(sleeps)
           /\ \A k \in 1 .. Len(sleeps) : sleeps[k] = args.interval
           /\ Len(sleeps) <= args.slices - 1
           /\ pc = "done"
                => /\ Len(sleeps) = args.slices - 1
                   /\ Len(events) = 3 * args.slices - 1

C9_Witness ==
    /\ TwapDone
    /\ args.slices = 3
    /\ args.interval = 1
    /\ sleeps = <<1, 1>>
    /\ events = <<"submit", "append", "sleep", "submit", "append", "sleep",
                  "submit", "append">>

\* C10: no retry and no compensation: a single order operation makes exactly
\* one exchange call, a place_twap run with slices >= 1 exactly slices calls,
\* one per slice and each an order placement for that slice, failed or not.
C10_OneCallPerOrder ==
    /\ op \in {"market", "limit", "stop_limit"}
          => /\ Len(exchangeCalls) <= 1
             /\ pc = "done" => exchangeCalls = <<params>>
    /\ (op = "twap" /\ args.slices >= 1)
          => /\ Len(exchangeCalls) \in {Len(results), Len(results) + 1}
             /\ Len(exchangeCalls) \in {i, i + 1}
             /\ Len(exchangeCalls) <= args.slices
             /\ pc = "done" => Len(exchangeCalls) = args.slices
             /\ \A k \in 1 .. Len(exchangeCalls) :
                   /\ exchangeCalls[k].type = "MARKET"
                   /\ exchangeCalls[k].symbol = args.symbol
                   /\ exchangeCalls[k].side = args.side
                   /\ exchangeCalls[k].quantity
                         \in SliceQty(args.total, args.slices, base, k - 1)

C10_Witness ==
    /\ TwapDone
    /\ args.slices = 3
    /\ Len(exchangeCalls) = 3
    /\ outcomes[1].kind = "Exception"
    /\ outcomes[2].kind = "BinanceAPIException"
    /\ outcomes[3].kind = "payload"
====
